---- MODULE Spec2Model ----
(***************************************************************************)
(* Model of the xrpTip backend's payment reconciliation and redistribution *)
(* engine: the fee splitter (config/platformWallet.js), the Tip and        *)
(* Creator collections (models/), the live payment observer, payment       *)
(* verification and history sync (services/xrplService.js), the tips       *)
(* controller (createTip, confirmTip) and the redistribution executor      *)
(* (services/redistributionService.js).                                    *)
(*                                                                         *)
(* Amounts are integers in drops (1 XRP = 1 000 000 drops), the ledger's   *)
(* smallest unit.  The source computes in IEEE doubles; the model computes *)
(* the same expressions in exact rational arithmetic.                      *)
(***************************************************************************)
EXTENDS Integers, Sequences, FiniteSets, TLC

VARIABLES
    gross,        \* fee splitter: the argument totalAmount (drops)
    split,        \* fee splitter: the returned {creatorAmount, platformFee}
    strictQuery,  \* mongoose strictQuery option of the build
    initialized,  \* redistributionService.wallet is set
    creators,     \* Creator collection: _id -> document
    tips,         \* Tip collection: sequence of documents, index = _id
    balance,      \* validated balance of the platform wallet (drops)
    engine,       \* lifecycle of the XRPL service: "starting", "running",
                  \* "unsubscribed" (listener removed), "closed" (the
                  \* redistribution client disconnected)
    procs         \* one entry per handler run (observer callback, service
                  \* call or request handler): position and locals

vars == <<gross, split, strictQuery, initialized, creators, tips, balance, engine,
         procs>>

Null == -1            \* JavaScript null / undefined, a missing field

(***************************************************************************)
(* config/platformWallet.js                                                *)
(***************************************************************************)
DropsPerCent == 10000         \* Math.round(x * 100) / 100 rounds to 0.01 XRP

PercentNum == 5               \* fees.percentage = 0.05 = 5 / 100
PercentDen == 100
minAmountForFees == 1000000   \* 1 XRP
minFee == 100000              \* 0.1 XRP
maxFee == Null                \* maxFee: null
minReserve == 10000000        \* 10 XRP

\* Math.round(x * 100) / 100 for the non-negative rational x = num / den drops:
\* the nearest cent, halves rounded up.
RoundCents(num, den) ==
    ((num + (DropsPerCent \div 2) * den) \div (DropsPerCent * den)) * DropsPerCent

\* A fee splitter that drops the minimum-fee clamp.
calculateBackendFees_NoMinFee(totalAmount) ==
    IF totalAmount < minAmountForFees
    THEN [creatorAmount |-> totalAmount, platformFee |-> 0]
    ELSE LET den == PercentDen + PercentNum
             fee == totalAmount * den - totalAmount * PercentDen
         IN  [creatorAmount |-> RoundCents(totalAmount * den - fee, den),
              platformFee   |-> RoundCents(fee, den)]

\* A fee splitter that rounds the beneficiary amount on the no-fee branch too.
calculateBackendFees_RoundsSmall(totalAmount) ==
    IF totalAmount < minAmountForFees
    THEN [creatorAmount |-> RoundCents(totalAmount, 1), platformFee |-> 0]
    ELSE LET den == PercentDen + PercentNum
             raw == totalAmount * den - totalAmount * PercentDen
             fee == IF raw < minFee * den THEN minFee * den ELSE raw
         IN  [creatorAmount |-> RoundCents(totalAmount * den - fee, den),
              platformFee   |-> RoundCents(fee, den)]

\* calculateBackendFees(totalAmount).  Rationals are kept over the common
\* denominator den = PercentDen + PercentNum (1 + percentage = den/PercentDen):
\*   creatorAmount = totalAmount / (1 + percentage) = totalAmount*PercentDen/den
\*   platformFee   = totalAmount - creatorAmount    = raw / den
calculateBackendFees(totalAmount) ==
    IF totalAmount < minAmountForFees
    THEN [creatorAmount |-> totalAmount, platformFee |-> 0]
    ELSE LET den  == PercentDen + PercentNum
             raw  == totalAmount * den - totalAmount * PercentDen
             fee1 == IF raw < minFee * den /\ totalAmount >= minAmountForFees
                     THEN minFee * den ELSE raw
             fee2 == IF maxFee # Null /\ fee1 > maxFee * den
                     THEN maxFee * den ELSE fee1
         IN  [creatorAmount |-> RoundCents(totalAmount * den - fee2, den),
              platformFee   |-> RoundCents(fee2, den)]

(***************************************************************************)
(* The ledger: validated, successful Payment transactions.  A transaction's *)
(* content is fixed by its hash.                                           *)
(***************************************************************************)
PlatformAddress == "rPlatform"

TxTable == <<
    [Destination |-> "rPlatform", DestinationTag |-> 11,   Amount |-> 1234000,
     Account |-> "rS1"],
    [Destination |-> "rPlatform", DestinationTag |-> Null, Amount |-> 500000,
     Account |-> "rS2"],
    [Destination |-> "rPlatform", DestinationTag |-> 77,   Amount |-> 3000000,
     Account |-> "rS1"],
    [Destination |-> "rPlatform", DestinationTag |-> 99,   Amount |-> 2000000,
     Account |-> "rS2"],
    [Destination |-> "rC1",       DestinationTag |-> Null, Amount |-> 2000000,
     Account |-> "rS1"],
    [Destination |-> "rC1",       DestinationTag |-> 55,   Amount |-> 2000000,
     Account |-> "rS2"],
    [Destination |-> "rPlatform", DestinationTag |-> 0,    Amount |-> 1500000,
     Account |-> "rS2"] >>

Hashes == DOMAIN TxTable

MaxProcs == 2                 \* handler runs (deliveries and direct calls)
MaxWalletProcs == 1           \* handler runs racing wallet reassignments
MaxUpdates == 2               \* wallet reassignments
InitialBalance == 12860005    \* platform wallet balance at start (drops):
                              \* 7 drops short of redistributing 3 XRP
NetworkFee == 12              \* requiredAmount = creatorAmount + 0.000012

Procs == 1..MaxProcs
CreatorIds == {1, 2}

\* The wallets a creator may move to: (walletType, userDestinationTag, xrpAddress)
Wallets == {
    [walletType |-> "personal", userDestinationTag |-> Null, xrpAddress |-> "rC1"],
    [walletType |-> "personal", userDestinationTag |-> Null, xrpAddress |-> "rC2"],
    [walletType |-> "exchange", userDestinationTag |-> 77,   xrpAddress |-> "rEx"],
    [walletType |-> "exchange", userDestinationTag |-> 11,   xrpAddress |-> "rEx"] }

(***************************************************************************)
(* models/Creator.js                                                       *)
(***************************************************************************)
\* The tag a wallet assignment is reached by: the field its walletType selects.
ActiveTag(w) ==
    IF w.walletType = "exchange" THEN w.userDestinationTag ELSE w.destinationTag

\* creatorSchema.methods.getAllValidDestinationTags
getAllValidDestinationTags(doc) ==
    {t \in {ActiveTag(doc)} \cup {ActiveTag(doc.walletHistory[i]) :
                                    i \in DOMAIN doc.walletHistory} : t # Null}

\* A query that compares both tag fields whatever the classification.
MatchesTag_AnyField(w, destinationTag) ==
    \/ w.destinationTag = destinationTag
    \/ w.userDestinationTag = destinationTag

\* One clause of the $or in findCreatorByDestinationTag.
MatchesTag(w, destinationTag) ==
    \/ w.destinationTag = destinationTag /\ w.walletType = "personal"
    \/ w.userDestinationTag = destinationTag /\ w.walletType = "exchange"

\* Creator.findOne(query): the first matching document, or null.
FindOneCreator(matching) ==
    IF matching = {} THEN Null
    ELSE CHOOSE c \in matching : \A d \in matching : c <= d

CurrentMatches(destinationTag) ==
    {c \in CreatorIds : MatchesTag(creators[c], destinationTag)}

HistoryMatches(destinationTag) ==
    {c \in CreatorIds : \E i \in DOMAIN creators[c].walletHistory :
        MatchesTag(creators[c].walletHistory[i], destinationTag)}

\* A hook that pushes the prior assignment with an open window and leaves
\* the earlier entries as they are.
SaveWallet_KeepsOpen(doc, w) ==
    [doc EXCEPT !.xrpAddress = w.xrpAddress,
                !.walletType = w.walletType,
                !.userDestinationTag = w.userDestinationTag,
                !.walletHistory =
                    Append(@, [xrpAddress |-> doc.xrpAddress,
                               walletType |-> doc.walletType,
                               destinationTag |-> doc.destinationTag,
                               userDestinationTag |-> doc.userDestinationTag,
                               activeTo |-> "open"])]

\* creatorSchema.pre('save') for an existing document whose wallet fields are
\* set to w: when xrpAddress, walletType or userDestinationTag is modified,
\* every open history entry is closed and the stored assignment is appended.
SaveWallet(doc, w) ==
    LET modified == \/ doc.xrpAddress # w.xrpAddress
                    \/ doc.walletType # w.walletType
                    \/ doc.userDestinationTag # w.userDestinationTag
        closed == [i \in DOMAIN doc.walletHistory |->
                      [doc.walletHistory[i] EXCEPT !.activeTo = "closed"]]
        old == [xrpAddress |-> doc.xrpAddress, walletType |-> doc.walletType,
                destinationTag |-> doc.destinationTag,
                userDestinationTag |-> doc.userDestinationTag,
                activeTo |-> "closed"]
    IN  [doc EXCEPT !.xrpAddress = w.xrpAddress,
                    !.walletType = w.walletType,
                    !.userDestinationTag = w.userDestinationTag,
                    !.walletHistory = IF modified THEN Append(closed, old) ELSE @]

(***************************************************************************)
(* models/Tip.js                                                           *)
(***************************************************************************)
\* The paths tipSchema declares.  The schema is strict (the mongoose default):
\* a value set on any other path is not stored.
TipSchemaPaths == {"creator", "creatorUsername", "amount", "currency",
                   "transactionHash", "senderAddress", "message", "status",
                   "ledgerIndex", "confirmedAt", "redistributed",
                   "redistributionTxHash", "platformFee", "creatorAmount",
                   "totalAmount"}

\* What is stored of a value assigned to `path`.
Stored(path, value) == IF path \in TipSchemaPaths THEN value ELSE Null

\* new Tip({...}) as the handlers build it; the fields the claims do not read
\* (creatorUsername, ledgerIndex, dates, message, currency) are left out.
NewTip(creator, amount, sender, tag, status, hash, totalAmount) ==
    [creator |-> Stored("creator", creator),
     amount |-> Stored("amount", amount),
     senderAddress |-> Stored("senderAddress", sender),
     destinationTag |-> Stored("destinationTag", tag),
     status |-> Stored("status", status),
     transactionHash |-> Stored("transactionHash", hash),
     redistributed |-> FALSE,
     redistributionTxHash |-> Null,
     totalAmount |-> Stored("totalAmount", totalAmount)]

\* Schema validation run by save(): creator is required, amount >= 0.000001.
Validates(doc) == doc.creator # Null /\ doc.amount >= 1

\* A collection without the unique index on transactionHash.
DuplicateKey_NoIndex(doc, id) == FALSE

\* The unique sparse index on transactionHash: another document holds the hash.
DuplicateKey(doc, id) ==
    /\ doc.transactionHash # Null
    /\ \E i \in DOMAIN tips : i # id /\ tips[i].transactionHash = doc.transactionHash

\* Tip.findOne({ transactionHash }): the _id of the document, or null.
FindTipByHash(hash) ==
    IF \E i \in DOMAIN tips : tips[i].transactionHash = hash
    THEN CHOOSE i \in DOMAIN tips : tips[i].transactionHash = hash
    ELSE Null

\* Tip.find({ creator, destinationTag: { $in: validTags }, status: 'confirmed' }).
\* With strictQuery a filter on a path outside the schema is dropped; without
\* it the filter reaches the store, where no document has the field.
StatsTips(creator, validTags) ==
    {i \in DOMAIN tips :
        /\ tips[i].creator = creator
        /\ tips[i].status = "confirmed"
        /\ \/ strictQuery /\ "destinationTag" \notin TipSchemaPaths
           \/ tips[i].destinationTag \in validTags}

RECURSIVE SumAmount(_)
SumAmount(ids) ==
    IF ids = {} THEN 0
    ELSE LET i == CHOOSE j \in ids : TRUE
         IN  tips[i].amount + SumAmount(ids \ {i})

\* The three counters the handlers recompute from the found tips.
ComputeStats(ids) ==
    [totalTips |-> Cardinality(ids),
     totalAmount |-> SumAmount(ids),
     uniqueSupporters |-> Cardinality({tips[i].senderAddress : i \in ids})]

(***************************************************************************)
(* Handler runs                                                            *)
(***************************************************************************)
NoStats == [totalTips |-> 0, totalAmount |-> 0, uniqueSupporters |-> 0]
NoSplit == [creatorAmount |-> Null, platformFee |-> Null]

\* retiredFor and created are history variables for the properties: the
\* creators for whom the payment's tag was a retired tag when the payment was
\* delivered, and the _ids of the Tips a sync run has inserted.
IdleProc == [pc |-> "idle", kind |-> "none", hash |-> Null, retiredFor |-> {},
             creator |-> Null,
             xrpAddress |-> "", validTags |-> {}, tipId |-> Null,
             available |-> Null, submitted |-> "no", newStats |-> NoStats,
             cursor |-> 0, newTips |-> 0, updatedTips |-> 0,
             skippedWrongTag |-> 0, created |-> {}, fetched |-> TRUE,
             outcome |-> "none"]

\* subscribeToPayments' listener: destinationTag: tx.DestinationTag || null
PaymentTag(hash) ==
    LET t == TxTable[hash].DestinationTag
    IN  IF t = Null \/ t = 0 THEN Null ELSE t

\* The creators whose wallet history holds the tag while their current
\* assignment is reached by another one.
RetiredFor(tag) ==
    {c \in CreatorIds :
        /\ tag # Null
        /\ ActiveTag(creators[c]) # tag
        /\ \E i \in DOMAIN creators[c].walletHistory :
              ActiveTag(creators[c].walletHistory[i]) = tag}

\* The handler's return or catch: locals go out of scope.
Finish(p, outcome) ==
    procs' = [procs EXCEPT ![p].pc = "done", ![p].outcome = outcome,
                           ![p].xrpAddress = "", ![p].validTags = {},
                           ![p].newStats = NoStats]

Goto(p, pc) == procs' = [procs EXCEPT ![p].pc = pc]

\* A queue that starts a run only when every earlier one has finished.
NextToStart_Serial(p) ==
    /\ p \in DOMAIN procs
    /\ engine # "starting"
    /\ procs[p].pc = "idle"
    /\ \A q \in DOMAIN procs : q < p => procs[q].pc = "done"

\* Handler runs are interchangeable: they are numbered in the order they
\* start.  Runs are considered once startup has finished.
NextToStart(p) ==
    /\ p \in DOMAIN procs
    /\ engine # "starting"
    /\ procs[p].pc = "idle"
    /\ \A q \in DOMAIN procs : q < p => procs[q].pc # "idle"

\* An observer whose inner try/catch is missing.
FailureOutcome_Propagates(kind) == "threw"

\* redistributeTip threw: the observer's inner catch logs it, and
\* processIncomingTransaction rethrows it to its caller.
FailureOutcome(kind) == IF kind = "observer" THEN "redistFailed" ELSE "threw"

\* The state after construction: two registered creators, no tips yet, the
\* redistribution service without a wallet, the XRPL service not initialised.
Directory ==
    /\ gross = Null
    /\ split = NoSplit
    /\ strictQuery \in BOOLEAN
    /\ initialized = FALSE
    /\ engine = "starting"
    /\ creators = [c \in CreatorIds |->
          IF c = 1
          THEN [xrpAddress |-> "rC1", walletType |-> "personal",
                destinationTag |-> 11, userDestinationTag |-> Null,
                walletHistory |-> <<>>, stats |-> NoStats]
          ELSE [xrpAddress |-> "rEx", walletType |-> "exchange",
                destinationTag |-> Null, userDestinationTag |-> 77,
                walletHistory |-> <<>>, stats |-> NoStats]]
    /\ tips = <<>>
    /\ balance = InitialBalance

Init ==
    /\ Directory
    /\ procs = [p \in 1..MaxProcs |-> IdleProc]

\* xrplService.initialize(): redistributionService.initialize() sets the
\* wallet when the secret is configured and returns false (no throw) when it
\* is missing; monitorPlatformWallet then subscribes in either case.
initialize(secret) ==
    /\ engine = "starting"
    /\ initialized' = secret
    /\ engine' = "running"
    /\ UNCHANGED <<gross, split, strictQuery, creators, tips, balance, procs>>

\* A listener that stops calling the callback once a run has failed.
Subscribed_UntilFailure ==
    /\ engine = "running"
    /\ \A q \in DOMAIN procs :
          procs[q].kind = "observer"
             => procs[q].outcome \notin {"error", "redistFailed", "threw"}

\* The transaction listener is registered and its process is alive: it stays
\* registered until the unsubscribe function is called, and only an error
\* escaping the callback (an unhandled rejection) would end the process.
Subscribed ==
    /\ engine = "running"
    /\ \A q \in DOMAIN procs :
          procs[q].kind = "observer" => procs[q].outcome # "threw"

\* The subscription listener calls the observer callback with a payment,
\* which runs to its first await.
Deliver(p, hash) ==
    /\ NextToStart(p)
    /\ Subscribed
    /\ TxTable[hash].Destination = PlatformAddress
    /\ procs' = [procs EXCEPT ![p].kind = "observer", ![p].hash = hash,
                    ![p].retiredFor = RetiredFor(PaymentTag(hash)),
                    ![p].pc = IF PaymentTag(hash) = Null
                              THEN "saveUnassigned" ELSE "findCurrent"]
    /\ UNCHANGED <<gross, split, strictQuery, initialized, creators, tips, balance, engine>>

\* processIncomingTransaction(txHash) up to findCreatorByDestinationTag.
processIncomingTransaction(p, hash) ==
    /\ NextToStart(p)
    /\ LET started == [procs EXCEPT ![p].kind = "pit", ![p].hash = hash]
       IN  procs' =
             IF ~initialized          \* this.wallet.address of a null wallet
             THEN [started EXCEPT ![p].pc = "done", ![p].outcome = "threw"]
             ELSE IF \/ TxTable[hash].Destination # PlatformAddress
                     \/ TxTable[hash].DestinationTag = Null
                     \/ TxTable[hash].DestinationTag = 0
             THEN [started EXCEPT ![p].pc = "done", ![p].outcome = "ignored"]
             ELSE [started EXCEPT ![p].pc = "findCurrent"]
    /\ UNCHANGED <<gross, split, strictQuery, initialized, creators, tips, balance, engine>>

Resolved(p, c) ==
    procs' = [procs EXCEPT ![p].creator = c,
                           ![p].xrpAddress = creators[c].xrpAddress,
                           ![p].validTags = getAllValidDestinationTags(creators[c]),
                           ![p].pc = "findExisting"]

\* findCreatorByDestinationTag, first query: the current assignments.
FindCurrent(p) ==
    /\ p \in DOMAIN procs
    /\ procs[p].pc = "findCurrent"
    /\ LET c == FindOneCreator(CurrentMatches(TxTable[procs[p].hash].DestinationTag))
       IN  IF c # Null THEN Resolved(p, c) ELSE Goto(p, "findHistory")
    /\ UNCHANGED <<gross, split, strictQuery, initialized, creators, tips, balance, engine>>

\* findCreatorByDestinationTag, second query: the wallet histories.
FindHistory(p) ==
    /\ p \in DOMAIN procs
    /\ procs[p].pc = "findHistory"
    /\ LET c == FindOneCreator(HistoryMatches(TxTable[procs[p].hash].DestinationTag))
       IN  IF c # Null THEN Resolved(p, c)
           ELSE IF procs[p].kind = "observer" THEN Goto(p, "saveUnassigned")
           ELSE Finish(p, "ignored")
    /\ UNCHANGED <<gross, split, strictQuery, initialized, creators, tips, balance, engine>>

\* The observer's unassignedTip.save() and return; a save that throws lands
\* in the callback's outer catch.
SaveUnassigned(p) ==
    /\ p \in DOMAIN procs
    /\ procs[p].pc = "saveUnassigned"
    /\ LET tx == TxTable[procs[p].hash]
           doc == NewTip(Null, tx.Amount, tx.Account, PaymentTag(procs[p].hash),
                         "confirmed", procs[p].hash, tx.Amount)
       IN  IF Validates(doc) /\ ~DuplicateKey(doc, Null)
           THEN tips' = Append(tips, doc) /\ Finish(p, "unattributed")
           ELSE tips' = tips /\ Finish(p, "error")
    /\ UNCHANGED <<gross, split, strictQuery, initialized, creators, balance, engine>>

\* Tip.findOne({ transactionHash }) and the branch on its result.
FindExisting(p) ==
    /\ p \in DOMAIN procs
    /\ procs[p].pc = "findExisting"
    /\ LET e == FindTipByHash(procs[p].hash)
       IN  IF procs[p].kind = "observer"
           THEN IF e # Null THEN Finish(p, "duplicate") ELSE Goto(p, "saveTip")
           ELSE IF e # Null /\ tips[e].redistributed
                THEN Finish(p, "alreadyRedistributed")
                ELSE procs' = [procs EXCEPT ![p].tipId = e, ![p].pc = "accountInfo"]
    /\ UNCHANGED <<gross, split, strictQuery, initialized, creators, tips, balance, engine>>

\* The observer's tip.save(), then redistributeTip to its first await.
SaveTip(p) ==
    /\ p \in DOMAIN procs
    /\ procs[p].pc = "saveTip"
    /\ LET tx == TxTable[procs[p].hash]
           fees == calculateBackendFees(tx.Amount)
           doc == NewTip(procs[p].creator, fees.creatorAmount, tx.Account,
                         PaymentTag(procs[p].hash), "confirmed", procs[p].hash,
                         tx.Amount)
       IN  IF Validates(doc) /\ ~DuplicateKey(doc, Null)
           THEN /\ tips' = Append(tips, doc)
                /\ IF initialized
                   THEN procs' = [procs EXCEPT ![p].tipId = Len(tips) + 1,
                                               ![p].pc = "accountInfo"]
                   ELSE procs' = [procs EXCEPT ![p].tipId = Len(tips) + 1,
                                               ![p].pc = "done",
                                               ![p].outcome = FailureOutcome("observer"),
                                               ![p].xrpAddress = "",
                                               ![p].validTags = {}]
           ELSE tips' = tips /\ Finish(p, "error")
    /\ UNCHANGED <<gross, split, strictQuery, initialized, creators, balance, engine>>

(***************************************************************************)
(* services/redistributionService.js: redistributeTip                      *)
(***************************************************************************)
\* A reserve guard that forgets the network fee estimate.
ReserveRefuses_NoFee(availableBalance, creatorAmount) ==
    availableBalance - creatorAmount < minReserve

\* A guard that only asks for the funds of the transfer itself.
ReserveRefuses_NoReserve(availableBalance, creatorAmount) ==
    availableBalance - (creatorAmount + NetworkFee) < 0

\* afterBalance < PLATFORM_WALLET_CONFIG.minReserve
ReserveRefuses(availableBalance, creatorAmount) ==
    LET requiredAmount == creatorAmount + NetworkFee
        afterBalance == availableBalance - requiredAmount
    IN  afterBalance < minReserve

\* The amount redistributeTip sends for the run's inbound transaction.
OutAmount(p) == calculateBackendFees(TxTable[procs[p].hash].Amount).creatorAmount

\* The hash of the outbound payment run p submits.
OutHash(p) == p

\* The account_info response arrives: the reserve check, then the payment is
\* built and handed to autofill and submitAndWait.  On a disconnected client
\* the request is rejected.
AccountInfo(p) ==
    /\ p \in DOMAIN procs
    /\ procs[p].pc = "accountInfo"
    /\ IF engine = "closed"
       THEN procs' = [procs EXCEPT ![p].pc = "done",
                         ![p].outcome = FailureOutcome(procs[p].kind),
                         ![p].xrpAddress = "", ![p].validTags = {}]
       ELSE IF ReserveRefuses(balance, OutAmount(p))
       THEN procs' = [procs EXCEPT ![p].available = balance, ![p].pc = "done",
                         ![p].outcome = FailureOutcome(procs[p].kind),
                         ![p].xrpAddress = "", ![p].validTags = {}]
       ELSE procs' = [procs EXCEPT ![p].available = balance, ![p].pc = "submit"]
    /\ UNCHANGED <<gross, split, strictQuery, initialized, creators, tips, balance, engine>>

\* submitAndWait returns the validated result: tesSUCCESS moves the amount and
\* the fee out of the platform wallet, a tec result only burns the fee.  The
\* caller's continuation runs to its next await.  When the client has been
\* disconnected submitAndWait rejects, whether or not the signed payment had
\* reached the ledger.
Submit(p) ==
    /\ p \in DOMAIN procs
    /\ procs[p].pc = "submit"
    /\ IF engine # "closed"
       THEN \E result \in {"tesSUCCESS", "tecFAILED"} :
              /\ result = "tesSUCCESS" => balance >= OutAmount(p) + NetworkFee
              /\ balance >= NetworkFee
              /\ balance' = IF result = "tesSUCCESS"
                            THEN balance - OutAmount(p) - NetworkFee
                            ELSE balance - NetworkFee
              /\ IF result = "tesSUCCESS"
                 THEN procs' = [procs EXCEPT ![p].submitted = result,
                                   ![p].pc = IF procs[p].kind = "observer"
                                                \/ procs[p].tipId # Null
                                             THEN "markRedistributed"
                                             ELSE "statsFind"]
                 ELSE procs' = [procs EXCEPT ![p].submitted = result,
                                   ![p].pc = "done",
                                   ![p].outcome = FailureOutcome(procs[p].kind),
                                   ![p].xrpAddress = "", ![p].validTags = {}]
       ELSE \E applied \in BOOLEAN :
              /\ applied => balance >= OutAmount(p) + NetworkFee
              /\ balance' = IF applied
                            THEN balance - OutAmount(p) - NetworkFee
                            ELSE balance
              /\ procs' = [procs EXCEPT
                    ![p].submitted = IF applied THEN "tesSUCCESS" ELSE "no",
                    ![p].pc = "done",
                    ![p].outcome = FailureOutcome(procs[p].kind),
                    ![p].xrpAddress = "", ![p].validTags = {}]
    /\ UNCHANGED <<gross, split, strictQuery, initialized, creators, tips, engine>>

\* tip.redistributed = true; tip.redistributionTxHash = txHash; tip.save()
MarkRedistributed(p) ==
    /\ p \in DOMAIN procs
    /\ procs[p].pc = "markRedistributed"
    /\ tips' = [tips EXCEPT ![procs[p].tipId].redistributed = TRUE,
                            ![procs[p].tipId].redistributionTxHash = OutHash(p)]
    /\ Goto(p, "statsFind")
    /\ UNCHANGED <<gross, split, strictQuery, initialized, creators, balance, engine>>

\* Tip.find(...) over the creator document's valid tags, and the counters
\* computed from the result.
StatsFind(p) ==
    /\ p \in DOMAIN procs
    /\ procs[p].pc = "statsFind"
    /\ procs' = [procs EXCEPT
          ![p].newStats = ComputeStats(StatsTips(procs[p].creator, procs[p].validTags)),
          ![p].pc = "statsSave"]
    /\ UNCHANGED <<gross, split, strictQuery, initialized, creators, tips, balance, engine>>

\* creator.save(): only the modified stats paths are written.
StatsSave(p) ==
    /\ p \in DOMAIN procs
    /\ procs[p].pc = "statsSave"
    /\ creators' = [creators EXCEPT ![procs[p].creator].stats = procs[p].newStats]
    /\ Finish(p, "ok")
    /\ UNCHANGED <<gross, split, strictQuery, initialized, tips, balance, engine>>

(***************************************************************************)
(* updateCreator: the wallet fields are set and the document saved.        *)
(***************************************************************************)
Reassignments ==
    Len(creators[1].walletHistory) + Len(creators[2].walletHistory)

updateCreator(c, w) ==
    /\ Reassignments < MaxUpdates
    /\ creators' = [creators EXCEPT ![c] = SaveWallet(creators[c], w)]
    /\ creators' # creators
    /\ UNCHANGED <<gross, split, strictQuery, initialized, tips, balance, procs, engine>>

(***************************************************************************)
(* The tip lifecycle operations: createTip and confirmTip of the tips      *)
(* controller, verifyAndConfirmTip and syncCreatorTransactions of          *)
(* services/xrplService.js.                                                *)
(***************************************************************************)
MaxStoreProcs == 2            \* handler runs racing on the Tip collection
MaxPendingTips == 2           \* createTip calls
TipAmount == 2000000          \* the amount a supporter announces (drops)
Tolerance == 1                \* verifyPayment: tolerance = 0.000001

ConfirmHashes == {1, 5}       \* hashes clients send to confirmTip
VerifyHashes == {1, 5, 6}     \* hashes clients send to verifyAndConfirmTip

PendingTips == {i \in DOMAIN tips : tips[i].status = "pending"}

\* createTip: a pending Tip for an active creator, without a transaction hash.
createTip(c, sender) ==
    /\ Len(tips) < MaxPendingTips
    /\ LET doc == NewTip(c, TipAmount, sender, Null, "pending", Null, Null)
       IN  /\ Validates(doc) /\ ~DuplicateKey(doc, Null)
           /\ tips' = Append(tips, doc)
    /\ UNCHANGED <<gross, split, strictQuery, initialized, creators, balance, procs, engine>>

\* verifyTransaction: the HTTP status the endpoint answers for the outcome
\* of verifyAndConfirmTip (a result with success false is answered 400, a
\* thrown error 500).
verifyTransaction(result) ==
    IF result = "threw" THEN 500
    ELSE IF result # "ok" THEN 400
    ELSE 200

\* A confirm method that stores the hash but leaves the Tip pending.
Confirmed_Pending(doc, hash) ==
    [doc EXCEPT !.status = "pending", !.transactionHash = hash]

\* tipSchema.methods.confirm: the paths it sets on the loaded document.
Confirmed(doc, hash) ==
    [doc EXCEPT !.status = "confirmed", !.transactionHash = hash]

\* confirmTip: Tip.findById and the check of the loaded status.
confirmTip(p, id, hash) ==
    /\ NextToStart(p)
    /\ id \in DOMAIN tips
    /\ LET started == [procs EXCEPT ![p].kind = "confirm", ![p].hash = hash,
                                    ![p].tipId = id,
                                    ![p].creator = tips[id].creator]
       IN  procs' = IF tips[id].status = "confirmed"
                    THEN [started EXCEPT ![p].pc = "done",
                                         ![p].outcome = "alreadyConfirmed"]
                    ELSE [started EXCEPT ![p].pc = "confirmSave"]
    /\ UNCHANGED <<gross, split, strictQuery, initialized, creators, tips, balance, engine>>

\* tip.confirm(hash, ledgerIndex): the save writes the modified paths; a
\* duplicate key error is thrown to the caller's catch.
ConfirmSave(p) ==
    /\ p \in DOMAIN procs
    /\ procs[p].pc = "confirmSave"
    /\ LET id == procs[p].tipId
           doc == Confirmed(tips[id], procs[p].hash)
       IN  IF DuplicateKey(doc, id)
           THEN tips' = tips /\ Finish(p, "threw")
           ELSE /\ tips' = [tips EXCEPT ![id] = doc]
                /\ Goto(p, IF procs[p].kind = "confirm"
                           THEN "loadCreator" ELSE "statsFind")
    /\ UNCHANGED <<gross, split, strictQuery, initialized, creators, balance, engine>>

\* Creator.findById(tip.creator) and the document's valid tags.
LoadCreator(p) ==
    /\ p \in DOMAIN procs
    /\ procs[p].pc \in {"loadCreator", "verifyCreator"}
    /\ LET c == procs[p].creator
       IN  procs' = [procs EXCEPT
              ![p].xrpAddress = creators[c].xrpAddress,
              ![p].validTags = getAllValidDestinationTags(creators[c]),
              ![p].pc = IF procs[p].pc = "loadCreator"
                        THEN "statsFind" ELSE "verifyPayment"]
    /\ UNCHANGED <<gross, split, strictQuery, initialized, creators, tips, balance, engine>>

\* verifyAndConfirmTip: Tip.findById and the check of the loaded status.
verifyAndConfirmTip(p, id, txHash) ==
    /\ NextToStart(p)
    /\ id \in DOMAIN tips
    /\ tips[id].creator # Null
    /\ LET started == [procs EXCEPT ![p].kind = "verify", ![p].hash = txHash,
                                    ![p].tipId = id,
                                    ![p].creator = tips[id].creator]
       IN  procs' = IF tips[id].status = "confirmed"
                    THEN [started EXCEPT ![p].pc = "done",
                                         ![p].outcome = "alreadyConfirmed"]
                    ELSE [started EXCEPT ![p].pc = "verifyCreator"]
    /\ UNCHANGED <<gross, split, strictQuery, initialized, creators, tips, balance, engine>>

\* xrplClient.verifyPayment(txHash, expectedDestination, expectedAmount)
verifyPayment(txHash, expectedDestination, expectedAmount, fetched) ==
    LET tx == TxTable[txHash]
        diff == IF tx.Amount >= expectedAmount THEN tx.Amount - expectedAmount
                ELSE expectedAmount - tx.Amount
    IN  /\ fetched              \* getTransaction threw: the catch answers invalid
        /\ tx.Destination = expectedDestination
        /\ diff <= Tolerance

\* The verification result arrives and the tag is checked against the
\* creator's valid tags.
VerifyPayment(p) ==
    /\ p \in DOMAIN procs
    /\ procs[p].pc = "verifyPayment"
    /\ \E fetched \in BOOLEAN :
          LET tx == TxTable[procs[p].hash]
              valid == verifyPayment(procs[p].hash, procs[p].xrpAddress,
                                     tips[procs[p].tipId].amount, fetched)
              tagOk == \/ tx.DestinationTag = Null \/ tx.DestinationTag = 0
                       \/ tx.DestinationTag \in procs[p].validTags
          IN  procs' = [procs EXCEPT
                 ![p].fetched = fetched,
                 ![p].pc = IF valid /\ tagOk THEN "confirmSave" ELSE "verifyFail"]
    /\ UNCHANGED <<gross, split, strictQuery, initialized, creators, tips, balance, engine>>

\* tip.status = 'failed'; tip.save()
VerifyFail(p) ==
    /\ p \in DOMAIN procs
    /\ procs[p].pc = "verifyFail"
    /\ tips' = [tips EXCEPT ![procs[p].tipId].status = "failed"]
    /\ Finish(p, "failed")
    /\ UNCHANGED <<gross, split, strictQuery, initialized, creators, balance, engine>>

\* The sequence of the hashes in S, newest (highest) first.
RECURSIVE Descending(_)
Descending(S) ==
    IF S = {} THEN <<>>
    ELSE LET m == CHOOSE h \in S : \A k \in S : k <= h
         IN  <<m>> \o Descending(S \ {m})

\* xrplClient.getAccountTransactions(address, { forward: false }): the
\* transactions that touch the account, newest first.
AccountTx(address) ==
    Descending({h \in Hashes : \/ TxTable[h].Destination = address
                               \/ TxTable[h].Account = address})

\* A sync that counts no entry as misrouted.
WrongTag_Never(destinationTag, validDestinationTags) == FALSE

\* destinationTag !== undefined && !validDestinationTags.includes(destinationTag)
WrongTag(destinationTag, validDestinationTags) ==
    destinationTag # Null /\ destinationTag \notin validDestinationTags

\* syncCreatorTransactions(creator) up to the account_tx request.
syncCreatorTransactions(p, c) ==
    /\ NextToStart(p)
    /\ procs' = [procs EXCEPT ![p].kind = "sync", ![p].creator = c,
                    ![p].xrpAddress = creators[c].xrpAddress,
                    ![p].validTags = getAllValidDestinationTags(creators[c]),
                    ![p].cursor = 1, ![p].pc = "syncLoop"]
    /\ UNCHANGED <<gross, split, strictQuery, initialized, creators, tips, balance, engine>>

\* The head of the for loop: the next transaction is filtered; a payment to
\* the creator's address whose tag is absent or valid goes on to Tip.findOne.
SyncLoop(p) ==
    /\ p \in DOMAIN procs
    /\ procs[p].pc = "syncLoop"
    /\ LET txs == AccountTx(procs[p].xrpAddress)
           i == procs[p].cursor
       IN  IF i > Len(txs) THEN Goto(p, "statsFind")
           ELSE LET tx == TxTable[txs[i]]
                IN  IF tx.Destination # procs[p].xrpAddress
                    THEN procs' = [procs EXCEPT ![p].cursor = i + 1]
                    ELSE IF WrongTag(tx.DestinationTag, procs[p].validTags)
                    THEN procs' = [procs EXCEPT ![p].cursor = i + 1,
                                      ![p].skippedWrongTag = @ + 1]
                    ELSE procs' = [procs EXCEPT ![p].hash = txs[i],
                                                ![p].pc = "syncFind"]
    /\ UNCHANGED <<gross, split, strictQuery, initialized, creators, tips, balance, engine>>

\* Tip.findOne({ transactionHash: txHash }) and the branch on its result; an
\* existing pending Tip is confirmed with the hash it already holds.
SyncFind(p) ==
    /\ p \in DOMAIN procs
    /\ procs[p].pc = "syncFind"
    /\ LET e == FindTipByHash(procs[p].hash)
       IN  IF e = Null
           THEN tips' = tips /\ Goto(p, "syncSave")
           ELSE IF tips[e].status = "pending"
           THEN /\ tips' = [tips EXCEPT ![e] = Confirmed(tips[e], procs[p].hash)]
                /\ procs' = [procs EXCEPT ![p].cursor = @ + 1,
                                ![p].updatedTips = @ + 1, ![p].pc = "syncLoop"]
           ELSE /\ tips' = tips
                /\ procs' = [procs EXCEPT ![p].cursor = @ + 1, ![p].pc = "syncLoop"]
    /\ UNCHANGED <<gross, split, strictQuery, initialized, creators, balance, engine>>

\* A reconciler that hands every Tip it records to the redistribution.
SyncSave_Redistributes(p) ==
    /\ p \in DOMAIN procs
    /\ procs[p].pc = "syncSave"
    /\ LET tx == TxTable[procs[p].hash]
           doc == NewTip(procs[p].creator, tx.Amount, tx.Account,
                         tx.DestinationTag, "confirmed", procs[p].hash, Null)
       IN  IF Validates(doc) /\ ~DuplicateKey(doc, Null)
           THEN /\ tips' = Append(tips, doc)
                /\ procs' = [procs EXCEPT ![p].newTips = @ + 1,
                                ![p].created = @ \cup {Len(tips) + 1},
                                ![p].tipId = Len(tips) + 1,
                                ![p].pc = "accountInfo"]
           ELSE /\ tips' = tips
                /\ procs' = [procs EXCEPT ![p].cursor = @ + 1, ![p].pc = "syncLoop"]
    /\ UNCHANGED <<gross, split, strictQuery, initialized, creators, balance, engine>>

\* new Tip({...}).save() for the transaction; an error is caught by the
\* loop body's catch and the loop continues.
SyncSave(p) ==
    /\ p \in DOMAIN procs
    /\ procs[p].pc = "syncSave"
    /\ LET tx == TxTable[procs[p].hash]
           doc == NewTip(procs[p].creator, tx.Amount, tx.Account,
                         tx.DestinationTag, "confirmed", procs[p].hash, Null)
       IN  IF Validates(doc) /\ ~DuplicateKey(doc, Null)
           THEN /\ tips' = Append(tips, doc)
                /\ procs' = [procs EXCEPT ![p].cursor = @ + 1,
                                ![p].newTips = @ + 1,
                                ![p].created = @ \cup {Len(tips) + 1},
                                ![p].pc = "syncLoop"]
           ELSE /\ tips' = tips
                /\ procs' = [procs EXCEPT ![p].cursor = @ + 1, ![p].pc = "syncLoop"]
    /\ UNCHANGED <<gross, split, strictQuery, initialized, creators, balance, engine>>

\* What the sync endpoint hands to the service as its `creator` argument:
\* creator._id, an ObjectId, which has none of the document's fields or methods.
SyncArgument(c) == [id |-> c]

\* POST /api/xrpl/sync/:username for an existing creator.  The service calls
\* creator.getAllValidDestinationTags() on its argument; on a value without
\* that method the call throws, the service rethrows and the endpoint's catch
\* answers 500.
syncCreatorTransactionsEndpoint(p, c) ==
    /\ NextToStart(p)
    /\ LET arg == SyncArgument(c)
           started == [procs EXCEPT ![p].kind = "syncEndpoint", ![p].creator = c]
       IN  procs' =
             IF "walletHistory" \in DOMAIN arg
             THEN [started EXCEPT ![p].xrpAddress = arg.xrpAddress,
                                  ![p].validTags = getAllValidDestinationTags(arg),
                                  ![p].cursor = 1, ![p].pc = "syncLoop"]
             ELSE [started EXCEPT ![p].pc = "done", ![p].outcome = "threw"]
    /\ UNCHANGED <<gross, split, strictQuery, initialized, creators, tips, balance, engine>>

\* The observer and the tip lifecycle operations on one Tip collection.
InitStore ==
    /\ Directory
    /\ procs = [p \in 1..MaxStoreProcs |-> IdleProc]

StoreProcs == 1..MaxStoreProcs
DirectHashes == {1, 5}        \* hashes passed to processIncomingTransaction
Senders == {"rS1"}

NextStore ==
    \/ \E secret \in BOOLEAN : initialize(secret)
    \/ \E p \in StoreProcs, h \in DirectHashes : processIncomingTransaction(p, h)
    \/ \E c \in CreatorIds, sender \in Senders : createTip(c, sender)
    \/ \E p \in StoreProcs, h \in Hashes : Deliver(p, h)
    \/ \E p \in StoreProcs : FindCurrent(p)
    \/ \E p \in StoreProcs : FindHistory(p)
    \/ \E p \in StoreProcs : SaveUnassigned(p)
    \/ \E p \in StoreProcs : FindExisting(p)
    \/ \E p \in StoreProcs : SaveTip(p)
    \/ \E p \in StoreProcs : AccountInfo(p)
    \/ \E p \in StoreProcs : Submit(p)
    \/ \E p \in StoreProcs : MarkRedistributed(p)
    \/ \E p \in StoreProcs : StatsFind(p)
    \/ \E p \in StoreProcs : StatsSave(p)
    \/ \E p \in StoreProcs, id \in 1..MaxPendingTips, h \in ConfirmHashes :
          confirmTip(p, id, h)
    \/ \E p \in StoreProcs : ConfirmSave(p)
    \/ \E p \in StoreProcs : LoadCreator(p)
    \/ \E p \in StoreProcs, id \in 1..MaxPendingTips, h \in VerifyHashes :
          verifyAndConfirmTip(p, id, h)
    \/ \E p \in StoreProcs : VerifyPayment(p)
    \/ \E p \in StoreProcs : VerifyFail(p)
    \/ \E p \in StoreProcs, c \in CreatorIds : syncCreatorTransactions(p, c)
    \/ \E p \in StoreProcs, c \in CreatorIds : syncCreatorTransactionsEndpoint(p, c)
    \/ \E p \in StoreProcs : SyncLoop(p)
    \/ \E p \in StoreProcs : SyncFind(p)
    \/ \E p \in StoreProcs : SyncSave(p)

SpecStore == InitStore /\ [][NextStore]_vars

(***************************************************************************)
(* xrplService.shutdown                                                    *)
(***************************************************************************)
\* shutdown, first await: the subscription's stop function removes the
\* listener and unsubscribes.
shutdown ==
    /\ engine = "running"
    /\ engine' = "unsubscribed"
    /\ UNCHANGED <<gross, split, strictQuery, initialized, creators, tips, balance, procs>>

\* shutdown, second await: redistributionService.disconnect() closes the
\* client the executor submits through.
disconnect ==
    /\ engine = "unsubscribed"
    /\ engine' = "closed"
    /\ UNCHANGED <<gross, split, strictQuery, initialized, creators, tips, balance, procs>>

\* Handler runs against a creator directory that does not change.
Next ==
    \/ \E secret \in BOOLEAN : initialize(secret)
    \/ \E p \in Procs, h \in Hashes : Deliver(p, h)
    \/ \E p \in Procs, h \in Hashes : processIncomingTransaction(p, h)
    \/ \E p \in Procs : FindCurrent(p)
    \/ \E p \in Procs : FindHistory(p)
    \/ \E p \in Procs : SaveUnassigned(p)
    \/ \E p \in Procs : FindExisting(p)
    \/ \E p \in Procs : SaveTip(p)
    \/ \E p \in Procs : AccountInfo(p)
    \/ \E p \in Procs : Submit(p)
    \/ \E p \in Procs : MarkRedistributed(p)
    \/ \E p \in Procs : StatsFind(p)
    \/ \E p \in Procs : StatsSave(p)

Spec == Init /\ [][Next]_vars

\* Handler runs racing wallet reassignments.
InitWallet ==
    /\ Directory
    /\ procs = [p \in 1..MaxWalletProcs |-> IdleProc]

NextWallet ==
    \/ \E secret \in BOOLEAN : initialize(secret)
    \/ \E p \in Procs, h \in Hashes : Deliver(p, h)
    \/ \E p \in Procs, h \in Hashes : processIncomingTransaction(p, h)
    \/ \E p \in Procs : FindCurrent(p)
    \/ \E p \in Procs : FindHistory(p)
    \/ \E p \in Procs : SaveUnassigned(p)
    \/ \E p \in Procs : FindExisting(p)
    \/ \E p \in Procs : SaveTip(p)
    \/ \E p \in Procs : AccountInfo(p)
    \/ \E p \in Procs : Submit(p)
    \/ \E p \in Procs : MarkRedistributed(p)
    \/ \E p \in Procs : StatsFind(p)
    \/ \E p \in Procs : StatsSave(p)
    \/ \E c \in CreatorIds, w \in Wallets : updateCreator(c, w)

SpecWallet == InitWallet /\ [][NextWallet]_vars

\* The observer's handler runs racing a shutdown.
NextShutdown ==
    \/ \E secret \in BOOLEAN : initialize(secret)
    \/ \E p \in Procs, h \in Hashes : Deliver(p, h)
    \/ \E p \in Procs : FindCurrent(p)
    \/ \E p \in Procs : FindHistory(p)
    \/ \E p \in Procs : SaveUnassigned(p)
    \/ \E p \in Procs : FindExisting(p)
    \/ \E p \in Procs : SaveTip(p)
    \/ \E p \in Procs : AccountInfo(p)
    \/ \E p \in Procs : Submit(p)
    \/ \E p \in Procs : MarkRedistributed(p)
    \/ \E p \in Procs : StatsFind(p)
    \/ \E p \in Procs : StatsSave(p)
    \/ shutdown
    \/ disconnect

SpecShutdown == Init /\ [][NextShutdown]_vars

(***************************************************************************)
(* The confirmation endpoints beside processIncomingTransaction: three     *)
(* requests on one Tip collection.                                         *)
(***************************************************************************)
MaxLifecycleProcs == 3
LifecycleProcs == 1..MaxLifecycleProcs
LifecycleHashes == {1, 4}     \* a payment to creator 1, one with an unknown tag
ClaimedHashes == {1}          \* the hash the client claims for its Tip
TippedCreators == {1}

InitLifecycle ==
    /\ Directory
    /\ procs = [p \in LifecycleProcs |-> IdleProc]

NextLifecycle ==
    \/ \E secret \in BOOLEAN : initialize(secret)
    \/ \E c \in TippedCreators, sender \in Senders : createTip(c, sender)
    \/ \E p \in LifecycleProcs, id \in 1..MaxPendingTips, h \in ClaimedHashes :
          confirmTip(p, id, h)
    \/ \E p \in LifecycleProcs : ConfirmSave(p)
    \/ \E p \in LifecycleProcs : LoadCreator(p)
    \/ \E p \in LifecycleProcs, id \in 1..MaxPendingTips, h \in ClaimedHashes :
          verifyAndConfirmTip(p, id, h)
    \/ \E p \in LifecycleProcs : VerifyPayment(p)
    \/ \E p \in LifecycleProcs : VerifyFail(p)
    \/ \E p \in LifecycleProcs, h \in LifecycleHashes : processIncomingTransaction(p, h)
    \/ \E p \in LifecycleProcs : FindCurrent(p)
    \/ \E p \in LifecycleProcs : FindHistory(p)
    \/ \E p \in LifecycleProcs : FindExisting(p)
    \/ \E p \in LifecycleProcs : AccountInfo(p)
    \/ \E p \in LifecycleProcs : Submit(p)
    \/ \E p \in LifecycleProcs : MarkRedistributed(p)
    \/ \E p \in LifecycleProcs : StatsFind(p)
    \/ \E p \in LifecycleProcs : StatsSave(p)

SpecLifecycle == InitLifecycle /\ [][NextLifecycle]_vars

(***************************************************************************)
(* The observer with two personal accounts, one of which has the routing   *)
(* tag 0: the value                                                        *)
(* parseInt(idHex, 16) % 4294967295 takes for an id ending in 00000000 or  *)
(* ffffffff, and the lowest value the schema admits (min: 0).              *)
(***************************************************************************)
InitZeroTag ==
    /\ gross = Null
    /\ split = NoSplit
    /\ strictQuery \in BOOLEAN
    /\ initialized = FALSE
    /\ engine = "starting"
    /\ creators = [c \in CreatorIds |->
          IF c = 1
          THEN [xrpAddress |-> "rC1", walletType |-> "personal",
                destinationTag |-> 0, userDestinationTag |-> Null,
                walletHistory |-> <<>>, stats |-> NoStats]
          ELSE [xrpAddress |-> "rC2", walletType |-> "personal",
                destinationTag |-> 11, userDestinationTag |-> Null,
                walletHistory |-> <<>>, stats |-> NoStats]]
    /\ tips = <<>>
    /\ balance = InitialBalance
    /\ procs = [p \in 1..MaxProcs |-> IdleProc]

NextZeroTag ==
    \/ \E secret \in BOOLEAN : initialize(secret)
    \/ \E p \in Procs, h \in Hashes : Deliver(p, h)
    \/ \E p \in Procs : FindCurrent(p)
    \/ \E p \in Procs : FindHistory(p)
    \/ \E p \in Procs : SaveUnassigned(p)
    \/ \E p \in Procs : FindExisting(p)
    \/ \E p \in Procs : SaveTip(p)
    \/ \E p \in Procs : AccountInfo(p)
    \/ \E p \in Procs : Submit(p)
    \/ \E p \in Procs : MarkRedistributed(p)
    \/ \E p \in Procs : StatsFind(p)
    \/ \E p \in Procs : StatsSave(p)

SpecZeroTag == InitZeroTag /\ [][NextZeroTag]_vars

(***************************************************************************)
(* cleanTips: the maintenance script that removes Tips with a "wrong" tag  *)
(***************************************************************************)
\* The Tip filter { creator, destinationTag: { $ne: expected } } as the
\* store evaluates it: a path the schema does not have is stripped from the
\* filter under strictQuery, and is absent from every stored document
\* otherwise.
WrongTagTip(t, c, expected) ==
    /\ t.creator = c
    /\ \/ strictQuery /\ "destinationTag" \notin TipSchemaPaths
       \/ t.destinationTag # expected

\* The filter { creator, destinationTag: expected, status: 'confirmed' }.
CorrectTip(t, c, expected) ==
    /\ t.creator = c
    /\ t.status = "confirmed"
    /\ \/ strictQuery /\ "destinationTag" \notin TipSchemaPaths
       \/ t.destinationTag = expected

RECURSIVE SumAmountOf(_, _)
SumAmountOf(ts, ids) ==
    IF ids = {} THEN 0
    ELSE LET i == CHOOSE j \in ids : TRUE
         IN  ts[i].amount + SumAmountOf(ts, ids \ {i})

\* One iteration of the script's loop over the creators, on the collections
\* as the previous iterations left them.
CleanCreator(db, c) ==
    LET expected == ActiveTag(db.creators[c])
        wrong(t) == WrongTagTip(t, c, expected)
        wrongTips == Cardinality({i \in DOMAIN db.tips : wrong(db.tips[i])})
        kept == SelectSeq(db.tips, LAMBDA t : ~wrong(t))
        correct == {i \in DOMAIN kept : CorrectTip(kept[i], c, expected)}
        stats == [totalTips |-> Cardinality(correct),
                  totalAmount |-> SumAmountOf(kept, correct),
                  uniqueSupporters |->
                      Cardinality({kept[i].senderAddress : i \in correct})]
    IN  IF wrongTips > 0
        THEN [tips |-> kept,
              creators |-> [db.creators EXCEPT ![c].stats = stats]]
        ELSE db

\* The script, run while no handler is in the middle of a request.
cleanTips ==
    /\ \A p \in DOMAIN procs : procs[p].pc \in {"idle", "done"}
    /\ LET db == CleanCreator(CleanCreator([tips |-> tips, creators |-> creators], 1), 2)
       IN  /\ tips' = db.tips
           /\ creators' = db.creators
    /\ UNCHANGED <<gross, split, strictQuery, initialized, balance, engine, procs>>

NextClean ==
    \/ \E secret \in BOOLEAN : initialize(secret)
    \/ \E p \in Procs, h \in Hashes : Deliver(p, h)
    \/ \E p \in Procs : FindCurrent(p)
    \/ \E p \in Procs : FindHistory(p)
    \/ \E p \in Procs : SaveUnassigned(p)
    \/ \E p \in Procs : FindExisting(p)
    \/ \E p \in Procs : SaveTip(p)
    \/ \E p \in Procs : AccountInfo(p)
    \/ \E p \in Procs : Submit(p)
    \/ \E p \in Procs : MarkRedistributed(p)
    \/ \E p \in Procs : StatsFind(p)
    \/ \E p \in Procs : StatsSave(p)
    \/ cleanTips

SpecClean == Init /\ [][NextClean]_vars

(***************************************************************************)
(* The fee splitter on its own: one call per gross amount.                 *)
(***************************************************************************)
GrossStep == 1000             \* gross amounts are multiples of 0.001 XRP
MaxGrossSteps == 3000         \* up to 3 XRP

InitFee ==
    /\ gross \in {k * GrossStep : k \in 1..MaxGrossSteps}
    /\ split = NoSplit
    /\ strictQuery = FALSE
    /\ initialized = FALSE
    /\ engine = "starting"
    /\ creators = [c \in CreatorIds |-> NoStats]
    /\ tips = <<>>
    /\ balance = 0
    /\ procs = <<>>

SplitFees ==
    /\ split = NoSplit
    /\ split' = calculateBackendFees(gross)
    /\ UNCHANGED <<gross, strictQuery, initialized, creators, tips, balance, procs, engine>>

NextFee == SplitFees

SpecFee == InitFee /\ [][NextFee]_vars

(***************************************************************************)
(* Properties                                                              *)
(***************************************************************************)
TipsWithHash(hash) == {i \in DOMAIN tips : tips[i].transactionHash = hash}

Observers == {p \in DOMAIN procs : procs[p].kind = "observer"}

\* An observer run that got as far as calling redistributeTip.
InvokedExecutor(p) == procs[p].kind = "observer" /\ procs[p].tipId # Null

\* C1: once two deliveries of the same qualifying payment have both been
\* handled, there is exactly one Tip for its hash and at most one of the
\* handlers has invoked the redistribution executor.
C1_TwiceDeliveredOneTip ==
    \A p, q \in Observers :
        (p # q /\ procs[p].hash = procs[q].hash
               /\ procs[p].pc = "done" /\ procs[q].pc = "done")
        => /\ Cardinality(TipsWithHash(procs[p].hash)) = 1
           /\ ~(InvokedExecutor(p) /\ InvokedExecutor(q))

\* C2: for every inbound transaction hash at most one outbound redistribution
\* transfer is ever submitted successfully.
C2_AtMostOneTransferPerHash ==
    \A h \in Hashes :
        Cardinality({p \in DOMAIN procs :
            procs[p].hash = h /\ procs[p].submitted = "tesSUCCESS"}) <= 1

\* C4: for a gross amount at or above the fee threshold the two returned
\* amounts add up to the gross amount exactly.
C4_SplitAddsUp ==
    (split # NoSplit /\ gross >= minAmountForFees)
    => split.creatorAmount + split.platformFee = gross

\* C5: for a gross amount below the fee threshold the fee is 0 and the
\* beneficiary amount is the gross amount, unchanged.
C5_BelowThresholdNoFee ==
    (split # NoSplit /\ gross < minAmountForFees)
    => split.platformFee = 0 /\ split.creatorAmount = gross

\* C5 witness: a gross amount below the threshold that is no whole number of
\* cents has been split.
C5_Witness ==
    split # NoSplit /\ gross < minAmountForFees /\ gross % DropsPerCent # 0

\* C6: for a gross amount at or above the fee threshold the fee is at least
\* minFee, and at most maxFee when a maximum is configured.
C6_FeeWithinBounds ==
    (split # NoSplit /\ gross >= minAmountForFees)
    => /\ split.platformFee >= minFee
       /\ maxFee # Null => split.platformFee <= maxFee

\* C6 witness: a gross amount whose percentage fee is below minFee has been
\* split, so the clamp acted.
C6_Witness ==
    /\ split # NoSplit
    /\ gross >= minAmountForFees
    /\ gross * PercentNum < minFee * (PercentDen + PercentNum)

\* C8: a redistributeTip run that read a balance with
\* balance - (beneficiaryAmount + network fee estimate) < minReserve has
\* ended in failure without submitting any outbound payment.
C8_RefusesBelowReserve ==
    \A p \in DOMAIN procs :
        (procs[p].available # Null
            /\ procs[p].available - (OutAmount(p) + NetworkFee) < minReserve)
        => /\ procs[p].pc = "done"
           /\ procs[p].submitted = "no"
           /\ procs[p].outcome \in {"redistFailed", "threw"}

\* C8 witness: one run was refused for the reserve while another run passed
\* the guard and submitted.
C8_Witness ==
    \E p, q \in DOMAIN procs :
        /\ procs[p].available # Null
        /\ procs[p].available - (OutAmount(p) + NetworkFee) < minReserve
        /\ procs[p].pc = "done"
        /\ procs[q].submitted = "tesSUCCESS"

\* The executor failed for observer run p: not initialised, refused for the
\* reserve, or the ledger reported a non-success result.
ExecutorFailed(p) ==
    /\ InvokedExecutor(p)
    /\ \/ ~initialized
       \/ /\ procs[p].available # Null
          /\ procs[p].available - (OutAmount(p) + NetworkFee) < minReserve
       \/ procs[p].submitted = "tecFAILED"

\* A direct processIncomingTransaction call paid out for the tip and marked it.
MarkedByDirectCall(id) ==
    \E q \in DOMAIN procs :
        /\ procs[q].kind = "pit"
        /\ procs[q].tipId = id
        /\ procs[q].submitted = "tesSUCCESS"
        /\ tips[id].redistributionTxHash = OutHash(q)

\* C9: when the executor fails for an observed payment, the handler ends in
\* its inner catch (nothing is propagated) and the Tip it saved stays
\* confirmed, with redistributed = false and no outbound hash (unless a
\* separate processIncomingTransaction call has itself paid and marked it).
C9_FailureLeavesTipConfirmed ==
    \A p \in DOMAIN procs :
        ExecutorFailed(p)
        => LET tip == tips[procs[p].tipId]
           IN  /\ procs[p].pc = "done"
               /\ procs[p].outcome = "redistFailed"
               /\ tip.transactionHash = procs[p].hash
               /\ tip.status = "confirmed"
               /\ \/ ~tip.redistributed /\ tip.redistributionTxHash = Null
                  \/ MarkedByDirectCall(procs[p].tipId)

\* C9 witness: the ledger rejected an observer's outbound payment and the
\* reserve guard refused another observer's; both Tips are stored.
C9_Witness ==
    \E p, q \in DOMAIN procs :
        /\ ExecutorFailed(p) /\ procs[p].submitted = "tecFAILED"
        /\ ExecutorFailed(q) /\ procs[q].available # Null
        /\ procs[q].submitted = "no"
        /\ ~tips[procs[p].tipId].redistributed
        /\ ~tips[procs[q].tipId].redistributed

\* C10: once the observer has handled a payment whose tag is absent or
\* resolves to no creator, a Tip with that hash and a null creator is stored.
C10_UnattributedTipStored ==
    \A p \in Observers :
        (procs[p].pc = "done" /\ procs[p].creator = Null)
        => \E i \in TipsWithHash(procs[p].hash) : tips[i].creator = Null

\* C7: once the observer has handled a payment that arrived bearing a tag
\* retired by an earlier wallet reassignment of a creator, a Tip for the
\* payment is attributed to that creator and the creator's stored stats
\* count it.
C7_RetiredTagStillCredited ==
    \A p \in Observers :
        \A c \in procs[p].retiredFor :
            (initialized /\ procs[p].pc = "done")
            => \E i \in TipsWithHash(procs[p].hash) :
                  /\ tips[i].creator = c
                  /\ creators[c].stats.totalTips >= 1
                  /\ creators[c].stats.totalAmount >= tips[i].amount

\* C3: no two Tip documents carry the same transaction hash.
C3_HashesUnique ==
    \A i, j \in DOMAIN tips :
        (i # j /\ tips[i].transactionHash # Null)
        => tips[i].transactionHash # tips[j].transactionHash

\* C3 witness: two different pending Tips were confirmed with the same hash;
\* one confirmation was stored and the other was rejected by the index.
C3_Witness ==
    \E p, q \in DOMAIN procs :
        /\ procs[p].kind = "confirm" /\ procs[q].kind = "confirm"
        /\ procs[p].tipId # procs[q].tipId
        /\ procs[p].hash = procs[q].hash
        /\ tips[procs[p].tipId].transactionHash = procs[p].hash
        /\ procs[q].pc = "done" /\ procs[q].outcome = "threw"
        /\ tips[procs[q].tipId].transactionHash = Null

Syncs == {p \in DOMAIN procs : procs[p].kind = "sync"}

\* The history entries a sync run has gone past: inbound payments to the
\* address the run was started with.
Processed(p) ==
    LET txs == AccountTx(creators[procs[p].creator].xrpAddress)
    IN  {txs[i] : i \in {j \in DOMAIN txs : j < procs[p].cursor}}

\* The processed entries that carry a tag outside the run's valid tag set.
Misrouted(p) ==
    {h \in Processed(p) :
        /\ TxTable[h].DestinationTag # Null
        /\ TxTable[h].DestinationTag \notin
              getAllValidDestinationTags(creators[procs[p].creator])}

C12_NeverBackToPending ==
    [][\A i \in DOMAIN tips :
          tips[i].status \in {"confirmed", "failed"} => tips'[i].status # "pending"]_vars

\* C12 witness: a Tip that a verification had marked failed was afterwards
\* handled by confirmTip, and it is confirmed, not pending.
C12_Witness ==
    \E p, q \in DOMAIN procs :
        /\ procs[p].kind = "verify" /\ procs[p].outcome = "failed"
        /\ procs[q].kind = "confirm" /\ procs[q].outcome = "ok"
        /\ procs[q].tipId = procs[p].tipId
        /\ tips[procs[p].tipId].status = "confirmed"

\* C13: confirmed and failed are terminal: no step takes a confirmed Tip to
\* failed, and no step takes a failed Tip to confirmed.
C13_ConfirmedFailedTerminal ==
    [][\A i \in DOMAIN tips :
          /\ tips[i].status = "confirmed" => tips'[i].status # "failed"
          /\ tips[i].status = "failed" => tips'[i].status # "confirmed"]_vars

\* C14: verifyAndConfirmTip on a Tip that is already confirmed changes no
\* Tip and no creator, ends at once without a ledger query, and the endpoint
\* reports it as a non-error outcome.
C14_ReconfirmIsNoOpNotError ==
    [][\A p \in DOMAIN procs :
          ( /\ procs[p].pc = "idle"
            /\ procs'[p].kind = "verify"
            /\ tips[procs'[p].tipId].status = "confirmed" )
          => /\ tips' = tips
             /\ creators' = creators
             /\ procs'[p].pc = "done"
             /\ procs'[p].outcome = "alreadyConfirmed"
             /\ verifyTransaction(procs'[p].outcome) < 400]_vars

\* C15: after an observer run has failed (its Tip could not be saved, or its
\* redistribution failed) the subscription is still live: any payment to the
\* platform address can still be delivered to the callback.
C15_FailureKeepsSubscription ==
    \A p \in DOMAIN procs :
        ( /\ engine = "running"
          /\ NextToStart(p)
          /\ \E q \in Observers :
                procs[q].outcome \in {"error", "redistFailed"} )
        => \A h \in Hashes :
              TxTable[h].Destination = PlatformAddress => ENABLED Deliver(p, h)

\* C15 witness: a run failed, and a payment delivered after it was processed
\* to the end with its Tip stored.
C15_Witness ==
    \E q, p \in Observers :
        /\ q < p
        /\ procs[q].outcome \in {"error", "redistFailed"}
        /\ procs[p].pc = "done"
        /\ procs[p].outcome = "ok"
        /\ procs[p].hash # procs[q].hash
        /\ TipsWithHash(procs[p].hash) # {}

\* C16: once the observer has finished an attributed payment, whether its
\* redistribution succeeded or failed, and no other run is under way, the
\* creator's persisted counters equal the values recomputed from its
\* confirmed Tips whose payment tag is in its tag set.
C16_StatsEqualRecomputation ==
    \A p \in Observers :
        ( /\ initialized
          /\ procs[p].pc = "done"
          /\ procs[p].outcome \in {"ok", "redistFailed"}
          /\ procs[p].creator # Null
          /\ \A q \in DOMAIN procs : procs[q].pc \in {"idle", "done"} )
        => LET c == procs[p].creator
               mine == {i \in DOMAIN tips :
                           /\ tips[i].creator = c
                           /\ tips[i].status = "confirmed"
                           /\ PaymentTag(tips[i].transactionHash)
                                 \in getAllValidDestinationTags(creators[c])}
           IN  creators[c].stats = ComputeStats(mine)

\* C17: while the redistribution of one payment awaits the ledger's answer,
\* a later payment can be delivered, its creator resolved and its Tip saved:
\* none of these steps waits for the pending redistribution.
C17_LaterEventNotBlocked ==
    \A p \in Observers :
        procs[p].pc = "submit"
        => \A q \in DOMAIN procs \ {p} :
              /\ ( /\ engine = "running"
                   /\ procs[q].pc = "idle"
                   /\ \A r \in DOMAIN procs : r < q => procs[r].pc # "idle" )
                 => \A h \in Hashes :
                       TxTable[h].Destination = PlatformAddress
                          => ENABLED Deliver(q, h)
              /\ procs[q].pc = "findCurrent" => ENABLED FindCurrent(q)
              /\ procs[q].pc = "findHistory" => ENABLED FindHistory(q)
              /\ procs[q].pc = "findExisting" => ENABLED FindExisting(q)
              /\ procs[q].pc = "saveTip" => ENABLED SaveTip(q)

\* C17 witness: the earlier run is still awaiting its submitted transfer and
\* the later run has already stored the Tip of another payment.
C17_Witness ==
    \E p, q \in Observers :
        /\ p < q
        /\ procs[p].pc = "submit"
        /\ procs[q].hash # procs[p].hash
        /\ procs[q].creator # Null
        /\ procs[q].tipId \in TipsWithHash(procs[q].hash)

\* C18: shutdown lets every redistribution in flight complete before the
\* connection is closed, and a transfer that was submitted and applied is
\* never classified as failed.
C18_ShutdownAwaitsInFlight ==
    /\ engine = "closed"
          => \A p \in Observers : procs[p].pc \notin {"accountInfo", "submit"}
    /\ \A p \in Observers :
          (procs[p].pc = "done" /\ procs[p].submitted = "tesSUCCESS")
             => procs[p].outcome # "redistFailed"

\* C19: when the operating account's credentials are absent at startup the
\* observer is never started, and no payment is processed while the
\* redistribution service is uninitialised.
C19_NotConfiguredIsFatal ==
    /\ engine = "running" => initialized
    /\ \A p \in Observers : initialized

\* C20: findCreatorByDestinationTag returns an account whose current
\* assignment's tag (the field its classification selects) equals the input;
\* only when there is none, an account whose wallet history holds an entry
\* with that tag under the entry's classification; otherwise nothing.  A tag
\* field of the other classification never counts as current.
C20_ResolverPrefersCurrentThenHistory ==
    [][\A p \in DOMAIN procs :
          /\ (procs[p].pc = "findCurrent" /\ procs'[p].pc # "findCurrent")
             => LET tag == TxTable[procs[p].hash].DestinationTag
                IN  IF \E c \in CreatorIds : ActiveTag(creators[c]) = tag
                    THEN /\ procs'[p].creator \in CreatorIds
                         /\ ActiveTag(creators[procs'[p].creator]) = tag
                    ELSE /\ procs'[p].creator = Null
                         /\ procs'[p].pc = "findHistory"
          /\ (procs[p].pc = "findHistory" /\ procs'[p].pc # "findHistory")
             => LET tag == TxTable[procs[p].hash].DestinationTag
                    held(c) == \E i \in DOMAIN creators[c].walletHistory :
                                  ActiveTag(creators[c].walletHistory[i]) = tag
                IN  IF \E c \in CreatorIds : held(c)
                    THEN /\ procs'[p].creator \in CreatorIds
                         /\ held(procs'[p].creator)
                    ELSE procs'[p].creator = Null]_vars

\* C20 witness: a payment's tag was resolved through the wallet history to
\* an account that is now classified exchange and still carries the tag in
\* its personal tag field.
C20_Witness ==
    \E p \in DOMAIN procs :
        /\ procs[p].kind \in {"observer", "pit"}
        /\ procs[p].creator \in CreatorIds
        /\ LET c == procs[p].creator
               tag == TxTable[procs[p].hash].DestinationTag
           IN  /\ creators[c].walletType = "exchange"
               /\ creators[c].destinationTag = tag
               /\ creators[c].userDestinationTag # tag
               /\ \A d \in CreatorIds : ActiveTag(creators[d]) # tag

\* C21: no two distinct accounts hold the same current routing tag at the
\* same time.
C21_CurrentTagsDisjoint ==
    \A c, d \in CreatorIds :
        (c # d /\ ActiveTag(creators[c]) # Null)
           => ActiveTag(creators[c]) # ActiveTag(creators[d])

\* C22: the sync endpoint, called for an existing account, runs the
\* reconciliation and returns its summary: the request never ends in an error.
C22_SyncEndpointReturnsSummary ==
    \A p \in DOMAIN procs :
        procs[p].kind = "syncEndpoint"
           => /\ procs[p].outcome # "threw"
              /\ procs[p].pc = "done" => procs[p].outcome = "ok"

\* C23: a Tip, once persisted, is never deleted: no step shrinks the set of
\* stored transaction hashes or the number of stored Tips.
C23_TipsNeverDeleted ==
    [][/\ {tips[i].transactionHash : i \in DOMAIN tips}
             \subseteq {tips'[i].transactionHash : i \in DOMAIN tips'}
       /\ Len(tips') >= Len(tips)]_vars

\* C24: after every step at most one wallet-history entry of an account has
\* an open window (activeTo = null, "open" here), and an update that changes the address,
\* the classification or the exchange tag leaves every earlier entry closed
\* and appends the prior assignment with a closed window.
C24_HistoryWindowsClosed ==
    [][\A c \in CreatorIds :
          LET old == creators[c]
              new == creators'[c]
              open == {i \in DOMAIN new.walletHistory :
                          new.walletHistory[i].activeTo = "open"}
              last == new.walletHistory[Len(new.walletHistory)]
          IN  /\ Cardinality(open) <= 1
              /\ ( \/ old.xrpAddress # new.xrpAddress
                   \/ old.walletType # new.walletType
                   \/ old.userDestinationTag # new.userDestinationTag )
                 => /\ Len(new.walletHistory) = Len(old.walletHistory) + 1
                    /\ open = {}
                    /\ last.xrpAddress = old.xrpAddress
                    /\ last.walletType = old.walletType
                    /\ last.destinationTag = old.destinationTag
                    /\ last.userDestinationTag = old.userDestinationTag
                    /\ \A i \in DOMAIN old.walletHistory :
                          [new.walletHistory[i] EXCEPT !.activeTo = "open"]
                             = [old.walletHistory[i] EXCEPT !.activeTo = "open"]]_vars

\* C24 witness: an account has been reassigned twice and both entries of its
\* history are closed.
C24_Witness ==
    \E c \in CreatorIds :
        /\ Len(creators[c].walletHistory) = 2
        /\ \A i \in DOMAIN creators[c].walletHistory :
              creators[c].walletHistory[i].activeTo = "closed"
        /\ creators[c].walletHistory[1].xrpAddress
              # creators[c].walletHistory[2].xrpAddress

\* C25: a step of syncCreatorTransactions never enters the redistribution
\* (no balance query, no submission), moves no funds, and leaves the
\* redistributed flag and the outbound hash of every stored Tip unchanged; a
\* Tip it records is not marked redistributed.
C25_SyncOnlyPersists ==
    [][\A p \in DOMAIN procs :
          (procs[p].kind = "sync" /\ procs'[p] # procs[p])
          => /\ procs'[p].pc \notin {"accountInfo", "submit", "markRedistributed"}
             /\ procs'[p].submitted = "no"
             /\ balance' = balance
             /\ \A i \in DOMAIN tips :
                   /\ tips'[i].redistributed = tips[i].redistributed
                   /\ tips'[i].redistributionTxHash = tips[i].redistributionTxHash
             /\ \A i \in DOMAIN tips' \ DOMAIN tips :
                   /\ ~tips'[i].redistributed
                   /\ tips'[i].redistributionTxHash = Null]_vars

\* C25 witness: a finished reconciliation recorded a Tip, next to a Tip the
\* observer had redistributed, which still carries its flag.
C25_Witness ==
    \E p \in Syncs :
        /\ procs[p].pc = "done"
        /\ procs[p].newTips >= 1
        /\ \A i \in procs[p].created : ~tips[i].redistributed
        /\ \E i \in DOMAIN tips : tips[i].redistributed

\* C26: whenever a run's redistribution succeeded and the run has finished, a
\* Tip for the inbound hash exists that is marked redistributed and carries
\* the outbound hash.
C26_SuccessfulTransferRecorded ==
    \A p \in DOMAIN procs :
        ( /\ procs[p].kind \in {"observer", "pit"}
          /\ procs[p].pc = "done"
          /\ procs[p].submitted = "tesSUCCESS" )
        => \E i \in TipsWithHash(procs[p].hash) :
              /\ tips[i].redistributed
              /\ tips[i].redistributionTxHash = OutHash(p)

\* C27: every Tip marked redistributed is confirmed, has a beneficiary and
\* an outbound hash, and a run whose transfer the ledger reported as
\* tesSUCCESS stands behind it.
C27_RedistributedTipIsSound ==
    \A i \in DOMAIN tips :
        tips[i].redistributed
        => /\ tips[i].status = "confirmed"
           /\ tips[i].creator # Null
           /\ tips[i].redistributionTxHash # Null
           /\ \E p \in DOMAIN procs :
                 /\ procs[p].submitted = "tesSUCCESS"
                 /\ procs[p].tipId = i
                 /\ OutHash(p) = tips[i].redistributionTxHash

\* C28: a verification writes 'failed' on a pending Tip only when the
\* claimed transaction was fetched from the ledger; when the lookup itself
\* threw, the run leaves every Tip as it is.
C28_LookupErrorLeavesPending ==
    [][\A p \in DOMAIN procs :
          (procs[p].kind = "verify" /\ procs'[p] # procs[p] /\ ~procs[p].fetched)
             => tips' = tips]_vars

C30_EveryTagValueIsATag ==
    \A p \in Observers :
        LET tag == TxTable[procs[p].hash].DestinationTag
        IN  ( /\ procs[p].pc = "done"
              /\ tag # Null
              /\ \E c \in CreatorIds : ActiveTag(creators[c]) = tag )
            => /\ procs[p].creator \in CreatorIds
               /\ ActiveTag(creators[procs[p].creator]) = tag
               /\ \E i \in TipsWithHash(procs[p].hash) :
                     tips[i].creator = procs[p].creator
               /\ \E q \in Observers :
                     procs[q].hash = procs[p].hash /\ InvokedExecutor(q)

====
